---- MODULE Spec2Model ----
(***************************************************************************)
(* Model of strbot.py: the string-sync script that copies localized        *)
(* string resources from the master branch of a GitHub repository to its   *)
(* beta release branch on a fresh working branch and opens a pull request. *)
(*                                                                         *)
(* The remote repository is modelled as a ref store (branch name ->        *)
(* commit id), a commit store (commit id -> tree, message, author) and a   *)
(* list of pull requests.  Every remote call of a run is one atomic step;  *)
(* runs interleave between calls.                                          *)
(***************************************************************************)
EXTENDS Integers, Sequences, FiniteSets, TLC

\* ------------------------------------------------------------------ bounds

\* Longest "locales" list of the manifest the model enumerates.
MaxLocales == 2
\* Last clock tick a run may read in time.time().
MaxClock == 2
\* Longest locale identifier of the manifests of SpecLocale.
MaxLocaleLen == 4
\* How far the versions of SpecVersion lie from the one where the branch
\* naming changes.
VersionSpan == 2
\* Most pushes of another actor to the release branch during a run.
MaxPushes == 1
\* Clock ticks per second: int(time.time()) drops the fraction of a second.
TicksPerSecond == 2

\* ------------------------------------------------------- program constants

DEFAULT_AUTHOR_NAME == "MickeyMoz"
DEFAULT_AUTHOR_EMAIL == "sebastian@mozilla.com"
MASTER_BRANCH_NAME == "master"

\* The version the entry point passes to sync_fenix_strings.
FENIX_MAJOR_VERSION == 87
\* Versions below it use the "releases/v" branch naming.
BRANCH_NAMING_THRESHOLD == 85

\* ---------------------------------------------------------------- strings

LowerChars ==
    {"a","b","c","d","e","f","g","h","i","j","k","l","m",
     "n","o","p","q","r","s","t","u","v","w","x","y","z"}
UpperChars ==
    {"A","B","C","D","E","F","G","H","I","J","K","L","M",
     "N","O","P","Q","R","S","T","U","V","W","X","Y","Z"}

\* A tuple of one-character strings as one string.
RECURSIVE Str(_)
Str(s) == IF s = <<>> THEN "" ELSE Head(s) \o Str(Tail(s))

\* Length of the longest prefix of s, from position i on, made of chars of cls.
RECURSIVE RunLen(_, _, _)
RunLen(s, i, cls) ==
    IF i <= Len(s) /\ s[i] \in cls THEN 1 + RunLen(s, i + 1, cls) ELSE 0

\* `sub in s` of Python, on tuples of characters.
Contains(sub, s) ==
    \E i \in 0..(Len(s) - Len(sub)) : SubSeq(s, i + 1, i + Len(sub)) = sub

\* --------------------------------------------------------- android_locale

ANDROID_COMPATIBILITY_MAPPINGS ==
    (<<"h","e">> :> <<"i","w">>) @@ (<<"y","i">> :> <<"j","i">>)
        @@ (<<"i","d">> :> <<"i","n">>)

\* re.match(r"([a-z]+)-([A-Z]+)", locale): anchored at the start only, both
\* groups greedy; <<>> when there is no match, else <<group(1), group(2)>>.
ReMatch(locale) ==
    LET n == RunLen(locale, 1, LowerChars)
        m == RunLen(locale, n + 2, UpperChars)
    IN  IF n >= 1 /\ n + 1 <= Len(locale) /\ locale[n + 1] = "-" /\ m >= 1
        THEN <<SubSeq(locale, 1, n), SubSeq(locale, n + 2, n + 1 + m)>>
        ELSE <<>>

\* android_locale without the compatibility table.
android_locale_unmapped(locale) ==
    LET matches == ReMatch(locale)
    IN  IF matches # <<>>
        THEN matches[1] \o <<"-", "r">> \o matches[2]
        ELSE locale

android_locale(locale) ==
    IF locale \in DOMAIN ANDROID_COMPATIBILITY_MAPPINGS
    THEN ANDROID_COMPATIBILITY_MAPPINGS[locale]
    ELSE LET matches == ReMatch(locale)
         IN  IF matches # <<>>
             THEN matches[1] \o <<"-", "r">> \o matches[2]
             ELSE locale

\* ------------------------------------------------------------ branch name

\* ReleaseBranchName with the old naming up to and including the threshold.
ReleaseBranchNameInclusive(fenix_major_version) ==
    IF fenix_major_version <= BRANCH_NAMING_THRESHOLD
    THEN "releases/v" \o ToString(fenix_major_version) \o ".0.0"
    ELSE "releases_v" \o ToString(fenix_major_version) \o ".0.0"

ReleaseBranchName(fenix_major_version) ==
    IF fenix_major_version < BRANCH_NAMING_THRESHOLD
    THEN "releases/v" \o ToString(fenix_major_version) \o ".0.0"
    ELSE "releases_v" \o ToString(fenix_major_version) \o ".0.0"

\* ------------------------------------------------------------------ paths

VERSION_PATH == "version.txt"
MANIFEST_PATH == "l10n-release.toml"
INDEX_PATH == "l10n.toml"

LocalePath(locale) ==
    "app/src/main/res/values-" \o Str(android_locale(locale)) \o "/strings.xml"

RECURSIVE LocalePaths(_)
LocalePaths(locales) ==
    IF locales = <<>> THEN <<>>
    ELSE <<LocalePath(Head(locales))>> \o LocalePaths(Tail(locales))

\* master_paths = ["l10n.toml"] + one path per manifest locale, in order.
MasterPaths(locales) == <<INDEX_PATH>> \o LocalePaths(locales)

\* ------------------------------------------------------ remote repository

Runs == {1, 2}

VARIABLES
    refs,            \* branch name -> id of its head commit
    commits,         \* commit id (index) -> [tree, message, author]
    pulls,           \* the pull requests created, oldest first
    clock,           \* the last tick any run read from time.time()
    pc,              \* run -> the remote call it issues next
    outcome,         \* run -> how it ended ("" while it runs)
    fenix_major_version,
    author,
    dry_run,
    release_branch,  \* run -> the Branch read by get_branch: [name, commit]
    master_paths,
    master_files,    \* run -> dict path -> ContentFile
    changed_files,   \* run -> dict path -> ContentFile or None, insertion-ordered
    idx,             \* run -> position of the running for loop
    pr_branch_name,
    calls            \* run -> the remote calls it issued, oldest first

remote == <<refs, commits, pulls>>
locals == <<release_branch, master_paths, master_files, changed_files, idx,
            pr_branch_name>>
inputs == <<fenix_major_version, author, dry_run>>
vars == <<refs, commits, pulls, clock, pc, outcome, fenix_major_version,
          author, dry_run, release_branch, master_paths, master_files,
          changed_files, idx, pr_branch_name, calls>>

\* Python's None.
None == <<>>

\* The blob hash GitHub reports as ContentFile.sha: a function of the content
\* alone, different for different contents.
Sha(content) == <<"blob", content>>

\* The identity GitHub gives a commit made without an author argument: the
\* user the access token belongs to.
TOKEN_USER == [name |-> "token-user", email |-> "token-user@users.noreply.github.com"]

\* What repo.get_contents raises for a missing ref or path.
UnknownObjectException == [raised |-> "UnknownObjectException"]

\* repo.get_contents(path, ref=ref): the ContentFile, or the exception PyGithub
\* raises on a 404.
RepoGetContents(path, ref) ==
    IF ref \in DOMAIN refs /\ path \in DOMAIN commits[refs[ref]].tree
    THEN [path |-> path,
          sha |-> Sha(commits[refs[ref]].tree[path]),
          decoded_content |-> commits[refs[ref]].tree[path]]
    ELSE UnknownObjectException

\* The wrapper of the script: None instead of the exception.
get_contents(path, ref) ==
    IF RepoGetContents(path, ref) = UnknownObjectException
    THEN None
    ELSE RepoGetContents(path, ref)

\* CommitOn of a commit that leaves a file the branch has as it is.
CommitOnKeeping(branch, path, content, message, by) ==
    [tree |-> commits[refs[branch]].tree @@ (path :> content),
     message |-> message,
     author |-> by]

\* A commit on top of branch that sets path to content.
CommitOn(branch, path, content, message, by) ==
    [tree |-> (path :> content) @@ commits[refs[branch]].tree,
     message |-> message,
     author |-> by]

\* ------------------------------------------------------------------ dicts

\* An insertion-ordered dict: d[k] = v keeps the position of a key it has.
EmptyDict == [keys |-> <<>>, vals |-> <<>>]

HasKey(d, k) == \E i \in 1..Len(d.keys) : d.keys[i] = k

KeyIndex(d, k) == CHOOSE i \in 1..Len(d.keys) : d.keys[i] = k

DictGet(d, k) == d.vals[KeyIndex(d, k)]

\* DictSet as a list would do it: every assignment appends.
DictAppend(d, k, v) == [keys |-> Append(d.keys, k), vals |-> Append(d.vals, v)]

DictSet(d, k, v) ==
    IF HasKey(d, k)
    THEN [d EXCEPT !.vals[KeyIndex(d, k)] = v]
    ELSE [keys |-> Append(d.keys, k), vals |-> Append(d.vals, v)]

\* ---------------------------------------------------------- initial states

\* The locale identifiers the manifests are built from: one of the override
\* table, the code it maps to, and one region-qualified identifier.
LocaleIds == {<<"h","e">>, <<"i","w">>, <<"p","t","-","B","R">>}

RECURSIVE SeqsUpTo(_, _)
SeqsUpTo(S, n) ==
    IF n = 0 THEN {<<>>}
    ELSE LET shorter == SeqsUpTo(S, n - 1)
         IN  shorter \cup {Append(q, x) : q \in shorter, x \in S}

\* The parsed l10n-release.toml: its "locales" list, or a document tomlkit
\* rejects.
MalformedToml == [valid |-> FALSE, locales |-> <<>>]
Manifests(n) == {[valid |-> TRUE, locales |-> l] : l \in SeqsUpTo(LocaleIds, n)}

\* The files a sync can touch.
SyncPaths ==
    {"l10n.toml",
     "app/src/main/res/values-iw/strings.xml",
     "app/src/main/res/values-pt-rBR/strings.xml"}

BETA_VERSION == <<"8","7",".","0",".","0","-","b","e","t","a",".","1">>
RELEASED_VERSION == <<"8","7",".","0",".","0">>
\* A version that holds "-beta" but not the marker "-beta.".
UNMARKED_VERSION == <<"8","7",".","0",".","0","-","b","e","t","a","1">>

\* Every assignment of one of the contents to some of the paths.
Trees(paths, contents) == UNION {[ps -> contents] : ps \in SUBSET paths}

CONFIGURED_AUTHOR == [name |-> DEFAULT_AUTHOR_NAME, email |-> DEFAULT_AUTHOR_EMAIL]

InitialCommit(tree) == [tree |-> tree, message |-> "initial", author |-> TOKEN_USER]

\* master holds the manifest (or not) and some of the string files.
MasterTrees(manifests) ==
    {t @@ m : t \in Trees(SyncPaths, {"new"}),
              m \in {<<>>} \cup {MANIFEST_PATH :> x : x \in manifests}}

\* The release branch holds version.txt (or not) and some of the string files,
\* each equal to master's or stale.
ReleaseTrees(versions) ==
    {t @@ v : t \in Trees(SyncPaths, {"new", "old"}),
              v \in {<<>>} \cup {VERSION_PATH :> x : x \in versions}}

InitRemote(masters, releases, withoutRelease) ==
    /\ pulls = <<>>
    /\ clock = 0
    /\ \/ \E m \in masters, rel \in releases :
            /\ commits = <<InitialCommit(m), InitialCommit(rel)>>
            /\ refs = (MASTER_BRANCH_NAME :> 1)
                        @@ (ReleaseBranchName(FENIX_MAJOR_VERSION) :> 2)
       \/ /\ withoutRelease
          /\ \E m \in masters :
                /\ commits = <<InitialCommit(m)>>
                /\ refs = (MASTER_BRANCH_NAME :> 1)

\* The runs `started` are at the first line of sync_fenix_strings, with the
\* given versions and DRY_RUN settings.
InitRunsWith(started, versions, dry) ==
    /\ pc = [r \in Runs |-> IF r \in started THEN "get_branch" ELSE "off"]
    /\ outcome = [r \in Runs |-> ""]
    /\ fenix_major_version = versions
    /\ author = [r \in Runs |-> CONFIGURED_AUTHOR]
    /\ dry_run = dry
    /\ release_branch = [r \in Runs |-> None]
    /\ master_paths = [r \in Runs |-> <<>>]
    /\ master_files = [r \in Runs |-> <<>>]
    /\ changed_files = [r \in Runs |-> EmptyDict]
    /\ idx = [r \in Runs |-> 0]
    /\ pr_branch_name = [r \in Runs |-> ""]
    /\ calls = [r \in Runs |-> <<>>]

InitRuns(started) ==
    InitRunsWith(started, [r \in Runs |-> FENIX_MAJOR_VERSION],
                 [r \in Runs |-> FALSE])

\* One run of `strbot.py fenix` on any repository state.
Init ==
    /\ InitRemote(MasterTrees(Manifests(MaxLocales) \cup {MalformedToml}),
                  ReleaseTrees({BETA_VERSION, RELEASED_VERSION, UNMARKED_VERSION}),
                  TRUE)
    /\ InitRuns({1})

\* ---------------------------------------------------------------- the run

\* The run issues a remote call: it is appended to the run's call log.
Log(r, call) == calls' = [calls EXCEPT ![r] = Append(@, call)]

\* The run stops: "noop" and "synced" return normally, "exit(1)" is
\* sys.exit(1), "raised" an exception nothing catches.
Ends(r, how) ==
    /\ pc' = [pc EXCEPT ![r] = "done"]
    /\ outcome' = [outcome EXCEPT ![r] = how]

Goes(r, next) ==
    /\ pc' = [pc EXCEPT ![r] = next]
    /\ UNCHANGED outcome

\* sync_fenix_strings, line 44 and 51: the release branch is looked up.
GetBranch(r) ==
    LET release_branch_name == ReleaseBranchName(fenix_major_version[r])
    IN  /\ pc[r] = "get_branch"
        /\ Log(r, [op |-> "get_branch", branch |-> release_branch_name,
                   ok |-> release_branch_name \in DOMAIN refs])
        /\ IF release_branch_name \in DOMAIN refs
           THEN /\ release_branch' = [release_branch EXCEPT ![r] =
                        [name |-> release_branch_name,
                         commit |-> refs[release_branch_name]]]
                /\ Goes(r, "get_version")
           ELSE /\ Ends(r, "raised")
                /\ UNCHANGED release_branch
        /\ UNCHANGED <<remote, clock, inputs, master_paths, master_files,
                       changed_files, idx, pr_branch_name>>

\* NotBeta with the test inverted.
NotBetaInverted(version) == Contains(<<"-","b","e","t","a",".">>, version)

\* Line 55: the version is not a beta version.
NotBeta(version) == ~Contains(<<"-","b","e","t","a",".">>, version)

\* sync_fenix_strings, lines 53-59: the beta guard.
GetVersion(r) ==
    LET release_branch_name == ReleaseBranchName(fenix_major_version[r])
        version_contents == RepoGetContents(VERSION_PATH, release_branch_name)
    IN  /\ pc[r] = "get_version"
        /\ Log(r, [op |-> "get_contents", path |-> VERSION_PATH,
                   ref |-> release_branch_name,
                   ok |-> version_contents # UnknownObjectException])
        /\ IF version_contents = UnknownObjectException
           THEN Ends(r, "raised")
           ELSE IF NotBeta(version_contents.decoded_content)
                THEN Ends(r, "noop")
                ELSE Goes(r, "load_manifest")
        /\ UNCHANGED <<remote, clock, inputs, locals>>

\* sync_strings, lines 77-82: the manifest is fetched and parsed, and the
\* candidate paths are built.
LoadManifest(r) ==
    LET master_toml_contents == RepoGetContents(MANIFEST_PATH, MASTER_BRANCH_NAME)
    IN  /\ pc[r] = "load_manifest"
        /\ Log(r, [op |-> "get_contents", path |-> MANIFEST_PATH,
                   ref |-> MASTER_BRANCH_NAME,
                   ok |-> master_toml_contents # UnknownObjectException])
        /\ IF master_toml_contents = UnknownObjectException
           THEN /\ Ends(r, "raised")
                /\ UNCHANGED <<master_paths, idx>>
           ELSE IF ~master_toml_contents.decoded_content.valid
                THEN /\ Ends(r, "raised")
                     /\ UNCHANGED <<master_paths, idx>>
                ELSE /\ master_paths' = [master_paths EXCEPT ![r] =
                            MasterPaths(master_toml_contents.decoded_content.locales)]
                     /\ idx' = [idx EXCEPT ![r] = 1]
                     /\ Goes(r, "fetch_source")
        /\ UNCHANGED <<remote, clock, inputs, release_branch, master_files,
                       changed_files, pr_branch_name>>

\* SourceMissing that skips the path and goes on with the next one.
SourceMissingSkipped(r) ==
    /\ UNCHANGED <<master_files, outcome>>
    /\ idx' = [idx EXCEPT ![r] = IF @ < Len(master_paths[r]) THEN @ + 1 ELSE 1]
    /\ pc' = [pc EXCEPT ![r] =
            IF idx[r] < Len(master_paths[r]) THEN "fetch_source"
            ELSE "fetch_destination"]

\* Lines 86-88: a candidate path master lacks ends the run.
SourceMissing(r) ==
    /\ Ends(r, "exit(1)")
    /\ UNCHANGED <<master_files, idx>>

\* sync_strings, lines 84-89: one pass of the loop that fetches the source
\* snapshots from master.
FetchSource(r) ==
    LET path == master_paths[r][idx[r]]
        contents == get_contents(path, MASTER_BRANCH_NAME)
    IN  /\ pc[r] = "fetch_source"
        /\ Log(r, [op |-> "get_contents", path |-> path,
                   ref |-> MASTER_BRANCH_NAME, ok |-> contents # None])
        /\ IF contents = None
           THEN SourceMissing(r)
           ELSE /\ master_files' = [master_files EXCEPT ![r] = (path :> contents) @@ @]
                /\ IF idx[r] < Len(master_paths[r])
                   THEN /\ idx' = [idx EXCEPT ![r] = @ + 1]
                        /\ Goes(r, "fetch_source")
                   ELSE /\ idx' = [idx EXCEPT ![r] = 1]
                        /\ Goes(r, "fetch_destination")
        /\ UNCHANGED <<remote, clock, inputs, release_branch, master_paths,
                       changed_files, pr_branch_name>>

\* NeedsUpdate that forgets the file the release branch lacks.
NeedsUpdateIfPresent(src, dst) == dst # None /\ src.sha # dst.sha

\* The test of line 100.
NeedsUpdate(src, dst) == dst = None \/ src.sha # dst.sha

\* sync_strings, lines 97-102: one pass of the loop that fetches the
\* destination snapshots and collects the changed files.
FetchDestination(r) ==
    LET path == master_paths[r][idx[r]]
        src == master_files[r][path]
        dst == get_contents(path, release_branch[r].name)
    IN  /\ pc[r] = "fetch_destination"
        /\ Log(r, [op |-> "get_contents", path |-> path,
                   ref |-> release_branch[r].name, ok |-> dst # None])
        /\ changed_files' = [changed_files EXCEPT ![r] =
                IF NeedsUpdate(src, dst) THEN DictSet(@, path, dst) ELSE @]
        /\ IF idx[r] < Len(master_paths[r])
           THEN /\ idx' = [idx EXCEPT ![r] = @ + 1]
                /\ Goes(r, "fetch_destination")
           ELSE /\ idx' = [idx EXCEPT ![r] = 1]
                /\ Goes(r, "create_git_ref")
        /\ UNCHANGED <<remote, clock, inputs, release_branch, master_paths,
                       master_files, pr_branch_name>>

\* Line 108: the working branch is named after the second the run reads.
PrBranchName(t) == "strbot/string-import-" \o ToString(t \div TicksPerSecond)

\* NextWrite that leaves the loop after its first pass.
NextWriteOnce(r, i) ==
    /\ idx' = [idx EXCEPT ![r] = i]
    /\ Goes(r, IF i <= 1 /\ i <= Len(changed_files[r].keys)
               THEN "write" ELSE "create_pull")

\* NextWrite of a script that writes no file when DRY_RUN is set.
NextWriteUnlessDryRun(r, i) ==
    /\ idx' = [idx EXCEPT ![r] = i]
    /\ Goes(r, IF ~dry_run[r] /\ i <= Len(changed_files[r].keys)
               THEN "write" ELSE "create_pull")

\* Where a run goes after a write of the loop of lines 113-123, or after the
\* branch was created: to the next changed file, or to the pull request.
NextWrite(r, i) ==
    /\ idx' = [idx EXCEPT ![r] = i]
    /\ Goes(r, IF i <= Len(changed_files[r].keys) THEN "write" ELSE "create_pull")

\* WriteRaised of a script that catches the exception and returns.
WriteRaisedAndCaught(r) ==
    /\ Ends(r, "synced")
    /\ UNCHANGED <<remote, idx>>

\* A remote write raised: nothing catches it, and nothing is undone.
WriteRaised(r) ==
    /\ Ends(r, "raised")
    /\ UNCHANGED <<remote, idx>>

\* sync_strings, lines 108-111: the working branch is created at the commit
\* the branch lookup returned.  GitHub refuses a ref that exists; `fails` is
\* any other failure of the call.
CreateGitRef(r) ==
    /\ pc[r] = "create_git_ref"
    /\ \E t \in clock..MaxClock, fails \in BOOLEAN :
        LET name == PrBranchName(t)
        IN  /\ clock' = t
            /\ pr_branch_name' = [pr_branch_name EXCEPT ![r] = name]
            /\ Log(r, [op |-> "create_git_ref", ref |-> "refs/heads/" \o name,
                       sha |-> release_branch[r].commit,
                       ok |-> ~fails /\ name \notin DOMAIN refs])
            /\ IF ~fails /\ name \notin DOMAIN refs
               THEN /\ refs' = (name :> release_branch[r].commit) @@ refs
                    /\ UNCHANGED <<commits, pulls>>
                    /\ NextWrite(r, 1)
               ELSE WriteRaised(r)
    /\ UNCHANGED <<inputs, release_branch, master_paths, master_files,
                   changed_files>>

\* FileWriteRaised with the exception swallowed: on to the next file.
FileWriteIgnored(r) ==
    /\ UNCHANGED remote
    /\ NextWrite(r, idx[r] + 1)

\* update_file or create_file raised in the loop of lines 113-123: the loop
\* has no handler, the run ends there.
FileWriteRaised(r) == WriteRaised(r)

\* The commit message of lines 118 and 122.
CommitMessage(path) == "Strings update - " \o path

\* The branch's head moves to a new commit.
Push(branch, commit) ==
    /\ commits' = Append(commits, commit)
    /\ refs' = [refs EXCEPT ![branch] = Len(commits) + 1]
    /\ UNCHANGED pulls

\* ExpectedSha with the hash of the source snapshot.
ExpectedShaOfSource(src, dst) == src.sha

\* Line 119: the hash update_file gives as the file's current one.
ExpectedSha(src, dst) == dst.sha

\* WriteBranch with the release branch itself.
WriteBranchIsRelease(r) == release_branch[r].name

\* Lines 119 and 123: the branch the files are written to.
WriteBranch(r) == pr_branch_name[r]

\* sync_strings, lines 116-119: a changed file the release branch has is
\* updated on the working branch.  GitHub refuses the update unless the sha
\* given is the sha of the file on that branch.
UpdateFile(r) ==
    /\ pc[r] = "write"
    /\ DictGet(changed_files[r], changed_files[r].keys[idx[r]]) # None
    /\ \E fails \in BOOLEAN :
        LET path == changed_files[r].keys[idx[r]]
            src == master_files[r][path]
            dst == DictGet(changed_files[r], path)
            branch == WriteBranch(r)
            stale == \/ get_contents(src.path, branch) = None
                     \/ get_contents(src.path, branch).sha # ExpectedSha(src, dst)
            ok == ~fails /\ ~stale
        IN  /\ Log(r, [op |-> "update_file", path |-> src.path,
                       message |-> CommitMessage(path),
                       content |-> src.decoded_content,
                       sha |-> ExpectedSha(src, dst), branch |-> branch,
                       author |-> author[r], stale |-> stale, ok |-> ok])
            /\ IF ok
               THEN /\ Push(branch, CommitOn(branch, src.path, src.decoded_content,
                                             CommitMessage(path), author[r]))
                    /\ NextWrite(r, idx[r] + 1)
               ELSE FileWriteRaised(r)
    /\ UNCHANGED <<clock, inputs, release_branch, master_paths, master_files,
                   changed_files, pr_branch_name>>

\* sync_strings, lines 120-123: a changed file the release branch lacks is
\* created on the working branch.  No author is passed: the commit is the
\* token user's.  GitHub refuses to create a file that exists.
CreateFile(r) ==
    /\ pc[r] = "write"
    /\ DictGet(changed_files[r], changed_files[r].keys[idx[r]]) = None
    /\ \E fails \in BOOLEAN :
        LET path == changed_files[r].keys[idx[r]]
            src == master_files[r][path]
            branch == WriteBranch(r)
            ok == ~fails /\ get_contents(src.path, branch) = None
        IN  /\ Log(r, [op |-> "create_file", path |-> src.path,
                       message |-> CommitMessage(path),
                       content |-> src.decoded_content,
                       branch |-> branch, author |-> None, ok |-> ok])
            /\ IF ok
               THEN /\ Push(branch, CommitOn(branch, src.path, src.decoded_content,
                                             CommitMessage(path), TOKEN_USER))
                    /\ NextWrite(r, idx[r] + 1)
               ELSE FileWriteRaised(r)
    /\ UNCHANGED <<clock, inputs, release_branch, master_paths, master_files,
                   changed_files, pr_branch_name>>

\* The backquote of the script's Markdown: a TLA+ string cannot hold the
\* character itself.
BACKQUOTE == "'"

\* Lines 129-131: one bullet per key of changed_files, in the dict's order.
RECURSIVE ListOfChanges(_)
ListOfChanges(keys) ==
    IF keys = <<>> THEN ""
    ELSE " * " \o BACKQUOTE \o Head(keys) \o BACKQUOTE \o "\n"
            \o ListOfChanges(Tail(keys))

PullTitle(product_name, major_version) ==
    "String sync for " \o product_name \o " v" \o ToString(major_version)

PullBody(product_name, release_branch_name, list_of_changes) ==
    "This (automated) patch syncs strings from " \o product_name \o " "
        \o BACKQUOTE \o MASTER_BRANCH_NAME \o BACKQUOTE \o " to "
        \o BACKQUOTE \o release_branch_name \o BACKQUOTE
        \o ".\n\nThe following files needed an update:\n\n" \o list_of_changes

\* PullRequest opened against master.
PullRequestToMaster(r) ==
    [title |-> PullTitle("Fenix", fenix_major_version[r]),
     body |-> PullBody("Fenix", release_branch[r].name,
                       ListOfChanges(changed_files[r].keys)),
     head |-> pr_branch_name[r],
     base |-> MASTER_BRANCH_NAME]

\* The pull request of lines 134-136.
PullRequest(r) ==
    [title |-> PullTitle("Fenix", fenix_major_version[r]),
     body |-> PullBody("Fenix", release_branch[r].name,
                       ListOfChanges(changed_files[r].keys)),
     head |-> pr_branch_name[r],
     base |-> release_branch[r].name]

\* sync_strings, lines 129-137: the pull request is opened and the run
\* returns.
CreatePull(r) ==
    /\ pc[r] = "create_pull"
    /\ \E fails \in BOOLEAN :
        LET pr == PullRequest(r)
            ok == ~fails /\ pr.head \in DOMAIN refs /\ pr.base \in DOMAIN refs
        IN  /\ Log(r, [op |-> "create_pull", title |-> pr.title, body |-> pr.body,
                       head |-> pr.head, base |-> pr.base, ok |-> ok])
            /\ IF ok
               THEN /\ pulls' = Append(pulls, pr)
                    /\ Ends(r, "synced")
                    /\ UNCHANGED <<refs, commits, idx>>
               ELSE WriteRaised(r)
    /\ UNCHANGED <<clock, inputs, release_branch, master_paths, master_files,
                   changed_files, pr_branch_name>>

Next ==
    \E r \in Runs :
        \/ GetBranch(r)
        \/ GetVersion(r)
        \/ LoadManifest(r)
        \/ FetchSource(r)
        \/ FetchDestination(r)
        \/ CreateGitRef(r)
        \/ UpdateFile(r)
        \/ CreateFile(r)
        \/ CreatePull(r)

Spec == Init /\ [][Next]_vars

\* The manifests of the two-run specification: no locale, one, two.
TwoRunManifests ==
    {[valid |-> TRUE, locales |-> l] :
        l \in {<<>>, <<<<"h","e">>>>, <<<<"p","t","-","B","R">>, <<"h","e">>>>}}

\* Two runs started against the same repository, at any times: master holds
\* the manifest and every string file, the release branch is in beta.
InitTwo ==
    /\ InitRemote({t @@ (MANIFEST_PATH :> m) :
                        t \in [SyncPaths -> {"new"}], m \in TwoRunManifests},
                  ReleaseTrees({BETA_VERSION}), FALSE)
    /\ InitRuns({1, 2})

SpecTwo == InitTwo /\ [][Next]_vars

\* One run, as in Init, on the manifests of TwoRunManifests or a malformed one.
InitFair ==
    /\ InitRemote(MasterTrees(TwoRunManifests \cup {MalformedToml}),
                  ReleaseTrees({BETA_VERSION, RELEASED_VERSION, UNMARKED_VERSION}),
                  TRUE)
    /\ InitRuns({1})

\* The next statement of run r.
Step(r) ==
    \/ GetBranch(r) \/ GetVersion(r) \/ LoadManifest(r) \/ FetchSource(r)
    \/ FetchDestination(r) \/ CreateGitRef(r) \/ UpdateFile(r) \/ CreateFile(r)
    \/ CreatePull(r)

\* The script is sequential code in which every remote call returns or
\* raises: a run that has a next statement executes it.
SpecFair == InitFair /\ [][Next]_vars /\ \A r \in Runs : WF_vars(Step(r))

\* Lines 156 and 168: DRY_RUN is read from the environment and handed to
\* sync_fenix_strings.  Two runs against the same repository that differ in
\* it only: run 1 has DRY_RUN set, run 2 has not.  Master holds every string
\* file or lacks the Hebrew one; the release branch is in beta or released.
InitDryRun ==
    /\ InitRemote({t @@ (MANIFEST_PATH :> m) :
                        t \in [SyncPaths -> {"new"}]
                              \cup [SyncPaths \ {LocalePath(<<"h","e">>)} -> {"new"}],
                        m \in TwoRunManifests},
                  ReleaseTrees({BETA_VERSION, RELEASED_VERSION}), FALSE)
    /\ InitRunsWith({1, 2}, [r \in Runs |-> FENIX_MAJOR_VERSION],
                    [r \in Runs |-> r = 1])

SpecDryRun == InitDryRun /\ [][Next]_vars

\* The characters of the locale identifiers of SpecLocale: the letters of the
\* keys of the compatibility table, the hyphen and an upper-case letter.
LocaleChars == {"h", "e", "y", "i", "d", "-", "B"}

\* Line 81: the manifest's `locales` are arbitrary strings.
LocaleInputs == SeqsUpTo(LocaleChars, MaxLocaleLen)

\* One run on a manifest that names one locale, any string: line 81 applies
\* android_locale to it.  Master holds every string file of SyncPaths; the
\* release branch is in beta and holds old copies of them, or none.
InitLocale ==
    /\ InitRemote({t @@ (MANIFEST_PATH :> [valid |-> TRUE, locales |-> <<l>>]) :
                        t \in [SyncPaths -> {"new"}], l \in LocaleInputs},
                  {t @@ (VERSION_PATH :> BETA_VERSION) :
                        t \in {<<>>} \cup [SyncPaths -> {"old"}]},
                  FALSE)
    /\ InitRuns({1})

SpecLocale == InitLocale /\ [][Next]_vars

\* Line 39: the major versions sync_fenix_strings may be called with, around
\* the one where line 44 changes the name.
Versions ==
    (BRANCH_NAMING_THRESHOLD - VersionSpan)..(BRANCH_NAMING_THRESHOLD + VersionSpan)

\* One run for any of these versions.  The repository has one release branch
\* for the version, named in either way, so that line 51 finds it or raises;
\* it is in beta (line 54 looks for "-beta." only).
InitVersion ==
    /\ pulls = <<>>
    /\ clock = 0
    /\ \E v \in Versions :
        \E name \in {"releases/v" \o ToString(v) \o ".0.0",
                     "releases_v" \o ToString(v) \o ".0.0"} :
        \E m \in TwoRunManifests, rel \in ReleaseTrees({BETA_VERSION}) :
            /\ commits = <<InitialCommit([p \in SyncPaths |-> "new"] @@ (MANIFEST_PATH :> m)), InitialCommit(rel)>>
            /\ refs = (MASTER_BRANCH_NAME :> 1) @@ (name :> 2)
            /\ InitRunsWith({1}, [r \in Runs |-> v], [r \in Runs |-> FALSE])

SpecVersion == InitVersion /\ [][Next]_vars

\* Someone else who commits to the release branch.
OTHER_ACTOR == [name |-> "other-actor", email |-> "other-actor@users.noreply.github.com"]

Pushes == Cardinality({i \in 1..Len(commits) : commits[i].author = OTHER_ACTOR})

\* Another actor pushes a commit to the release branch that the run reads by
\* name on line 99: it changes or adds one of the string files there.
ActorPush ==
    LET name == ReleaseBranchName(FENIX_MAJOR_VERSION)
    IN  /\ Pushes < MaxPushes
        /\ \E path \in SyncPaths, content \in {"new", "old"} :
            /\ IF path \in DOMAIN commits[refs[name]].tree
               THEN commits[refs[name]].tree[path] # content
               ELSE TRUE
            /\ Push(name, CommitOn(name, path, content, "push", OTHER_ACTOR))
        /\ UNCHANGED <<clock, pc, outcome, locals, inputs, calls>>

\* One run, the release branch in beta, and the other actor.
InitActor ==
    /\ InitRemote({t @@ (MANIFEST_PATH :> m) :
                        t \in [SyncPaths -> {"new"}], m \in TwoRunManifests},
                  ReleaseTrees({BETA_VERSION}), FALSE)
    /\ InitRuns({1})

NextActor == Next \/ ActorPush

SpecActor == InitActor /\ [][NextActor]_vars

\* ------------------------------------------------------------- properties

ToSet(seq) == {seq[i] : i \in DOMAIN seq}

\* The calls of a run with one of the given operations, oldest first.
CallsWith(r, ops) == SelectSeq(calls[r], LAMBDA c : c.op \in ops)

FileOps == {"update_file", "create_file"}
WriteOps == FileOps \cup {"create_git_ref", "create_pull"}

\* The two branches as the remote holds them.  No action commits to master or
\* to the release branch, so these are the trees every fetch of a run reads.
RELEASE_BRANCH_NAME == "releases_v87.0.0"
MasterTree == commits[refs["master"]].tree
ReleaseTree == commits[refs[RELEASE_BRANCH_NAME]].tree

\* The path is absent on the release branch or its hash is not master's.
Differs(p) ==
    p \notin DOMAIN ReleaseTree \/ Sha(ReleaseTree[p]) # Sha(MasterTree[p])

\* The destination snapshot of a path, read off the remote.
Snapshot(p) ==
    IF p \in DOMAIN ReleaseTree
    THEN [path |-> p, sha |-> Sha(ReleaseTree[p]), decoded_content |-> ReleaseTree[p]]
    ELSE None

\* The run has finished the diff loop of lines 97-102.
DiffDone(r) ==
    \/ pc[r] \in {"create_git_ref", "write", "create_pull"}
    \/ CallsWith(r, {"create_git_ref"}) # <<>>

\* C1: when the Change Set the diff step computed is empty, the run issues no
\* create-ref, no create-file or update-file and no create-pull-request call.
C1_NoWriteWhenChangeSetEmpty ==
    \A r \in Runs :
        (DiffDone(r) /\ changed_files[r].keys = <<>>)
            => CallsWith(r, WriteOps) = <<>>

\* C2: a run makes at most one create-ref and at most one create-pull-request
\* call; a run that ends synced with a non-empty Change Set made exactly one
\* create-ref call, exactly one file operation per changed path (update_file
\* with the destination's hash when the release branch has the path,
\* create_file when it lacks it) and exactly one create-pull-request call, with
\* head the branch it created and base the release branch.
C2_OneBranchOneWritePerPathOnePull ==
    \A r \in Runs :
        LET refCalls == CallsWith(r, {"create_git_ref"})
            fileCalls == CallsWith(r, FileOps)
            pullCalls == CallsWith(r, {"create_pull"})
            changed == {p \in ToSet(master_paths[r]) : Differs(p)}
        IN  /\ Len(refCalls) <= 1
            /\ Len(pullCalls) <= 1
            /\ (outcome[r] = "synced" /\ changed # {}) =>
                /\ Len(refCalls) = 1
                /\ Len(pullCalls) = 1
                /\ Len(fileCalls) = Cardinality(changed)
                /\ \A p \in changed :
                    \E i \in DOMAIN fileCalls :
                        /\ fileCalls[i].path = p
                        /\ fileCalls[i].branch = pullCalls[1].head
                        /\ IF p \in DOMAIN ReleaseTree
                           THEN /\ fileCalls[i].op = "update_file"
                                /\ fileCalls[i].sha = Sha(ReleaseTree[p])
                           ELSE fileCalls[i].op = "create_file"
                /\ refCalls[1].ref = "refs/heads/" \o pullCalls[1].head
                /\ pullCalls[1].base = RELEASE_BRANCH_NAME

\* A run ended synced after one update_file and one create_file.
C2_Witness ==
    \E r \in Runs :
        /\ outcome[r] = "synced"
        /\ CallsWith(r, {"update_file"}) # <<>>
        /\ CallsWith(r, {"create_file"}) # <<>>

\* C3: at the end of the diff step the keys of the Change Set are candidate
\* paths, a candidate path is a key iff the release branch lacks it or holds
\* it with a hash other than master's, and the value of a key is the
\* destination snapshot (None when the release branch lacks the path).
C3_ChangeSetIsTheDiff ==
    \A r \in Runs :
        DiffDone(r) =>
            LET keys == ToSet(changed_files[r].keys)
                candidates == ToSet(master_paths[r])
            IN  /\ keys \subseteq candidates
                /\ \A p \in candidates : (p \in keys) <=> Differs(p)
                /\ \A p \in keys : DictGet(changed_files[r], p) = Snapshot(p)

\* The diff ended with a path the release branch lacks, a stale path and an
\* unchanged path.
C3_Witness ==
    \E r \in Runs :
        /\ pc[r] = "create_git_ref"
        /\ \E p, q \in ToSet(changed_files[r].keys) :
                /\ DictGet(changed_files[r], p) = None
                /\ DictGet(changed_files[r], q) # None
        /\ ToSet(master_paths[r]) # ToSet(changed_files[r].keys)

\* C4: a candidate path master lacks ends the run with sys.exit(1) at that
\* fetch: the failed fetch is the last call of the run, so no destination
\* fetch and no write follows it, wherever the path is in the candidate list.
C4_MissingSourceAborts ==
    \A r \in Runs :
        \A i \in DOMAIN calls[r] :
            (/\ calls[r][i].op = "get_contents"
             /\ calls[r][i].ref = "master"
             /\ calls[r][i].path # "l10n-release.toml"
             /\ ~calls[r][i].ok)
                => /\ i = Len(calls[r])
                   /\ pc[r] = "done"
                   /\ outcome[r] = "exit(1)"
                   /\ CallsWith(r, WriteOps) = <<>>
                   /\ \A j \in DOMAIN calls[r] :
                        calls[r][j].op = "get_contents"
                            => calls[r][j].ref # RELEASE_BRANCH_NAME
                                \/ calls[r][j].path = "version.txt"

\* A run ended at the fetch of its third candidate path, the first two found.
C4_Witness ==
    \E r \in Runs :
        /\ outcome[r] = "exit(1)"
        /\ Len(master_paths[r]) = 3
        /\ Len(calls[r]) = 6
        /\ ~calls[r][6].ok

\* C5: when the version.txt of the release branch is without "-beta." (87.0.0,
\* or 87.0.0-beta1, which has no dot after "beta"), the run returns normally after the branch lookup and the fetch of
\* version.txt: it does not fetch the manifest and writes nothing.
C5_NotBetaIsANoop ==
    \A r \in Runs :
        (/\ Len(calls[r]) >= 2
         /\ calls[r][2].ok
         /\ ReleaseTree["version.txt"]
                \in {<<"8","7",".","0",".","0">>,
                     <<"8","7",".","0",".","0","-","b","e","t","a","1">>})
            => /\ pc[r] = "done"
               /\ outcome[r] = "noop"
               /\ Len(calls[r]) = 2
               /\ calls[r][1].op = "get_branch"
               /\ calls[r][2].op = "get_contents"
               /\ calls[r][2].path = "version.txt"
               /\ pulls = <<>>
               /\ Len(commits) = 2
               /\ DOMAIN refs = {"master", RELEASE_BRANCH_NAME}

\* A run returned at the beta guard on version 87.0.0-beta1.
C5_Witness ==
    \E r \in Runs :
        /\ outcome[r] = "noop"
        /\ Len(calls[r]) = 2
        /\ Len(ReleaseTree["version.txt"]) = 12

\* The path of a manifest locale, written out.
ResourcePath(locale) ==
    CASE locale = <<"h","e">> -> "app/src/main/res/values-iw/strings.xml"
      [] locale = <<"i","w">> -> "app/src/main/res/values-iw/strings.xml"
      [] locale = <<"p","t","-","B","R">> ->
            "app/src/main/res/values-pt-rBR/strings.xml"

\* The paths of a list that differ between the branches, each once, at the
\* place of its first occurrence.
RECURSIVE ChangedInOrder(_, _)
ChangedInOrder(paths, seen) ==
    IF paths = <<>> THEN <<>>
    ELSE LET rest == ChangedInOrder(Tail(paths), seen \cup {Head(paths)})
         IN  IF Head(paths) \notin seen /\ Differs(Head(paths))
             THEN <<Head(paths)>> \o rest
             ELSE rest

RECURSIVE Bullets(_)
Bullets(paths) ==
    IF paths = <<>> THEN ""
    ELSE " * '" \o Head(paths) \o "'\n" \o Bullets(Tail(paths))

\* The manifest on master, as parsed.
ManifestLocales == MasterTree["l10n-release.toml"].locales

\* C6: the candidate list is l10n.toml followed by the path of each manifest
\* locale in manifest order; the file writes a run has issued so far are the
\* changed candidate paths in that order, each once, and so are the bullets of
\* the pull-request body, also when two locales of the manifest share a path.
C6_WritesAndBulletsInCandidateOrder ==
    \A r \in Runs :
        DiffDone(r) =>
            LET fileCalls == CallsWith(r, FileOps)
                pullCalls == CallsWith(r, {"create_pull"})
                expected == ChangedInOrder(master_paths[r], {})
            IN  /\ Len(master_paths[r]) = 1 + Len(ManifestLocales)
                /\ master_paths[r][1] = "l10n.toml"
                /\ \A i \in DOMAIN ManifestLocales :
                        master_paths[r][i + 1] = ResourcePath(ManifestLocales[i])
                /\ Len(fileCalls) <= Len(expected)
                /\ \A i \in DOMAIN fileCalls : fileCalls[i].path = expected[i]
                /\ pullCalls # <<>> =>
                    /\ Len(fileCalls) = Len(expected)
                    /\ pullCalls[1].body =
                        "This (automated) patch syncs strings from Fenix 'master' to "
                            \o "'releases_v87.0.0'.\n\nThe following files needed an "
                            \o "update:\n\n" \o Bullets(expected)

\* A run ended synced on a manifest that lists "he" and "iw", which share
\* values-iw, having written l10n.toml and then the shared file.
C6_Witness ==
    \E r \in Runs :
        /\ outcome[r] = "synced"
        /\ ManifestLocales = <<<<"h","e">>, <<"i","w">>>>
        /\ Len(CallsWith(r, FileOps)) = 2
        /\ CallsWith(r, FileOps)[2].path = "app/src/main/res/values-iw/strings.xml"

\* C7: every update_file and create_file call of a run carries the author the
\* run was configured with and the message "Strings update - <path>".
C7_WritesCarryAuthorAndMessage ==
    \A r \in Runs :
        \A i \in DOMAIN calls[r] :
            calls[r][i].op \in FileOps
                => /\ calls[r][i].author = author[r]
                   /\ calls[r][i].message = "Strings update - " \o calls[r][i].path

\* C8: a file write that fails is the last call of its run, which ends with
\* the exception: no retry, no later write, no pull request; the working
\* branch is still there and holds every write made before the failure.
C8_FailedWriteEndsRunWithoutRollback ==
    \A r \in Runs :
        \A i \in DOMAIN calls[r] :
            (calls[r][i].op \in FileOps /\ ~calls[r][i].ok)
                => /\ i = Len(calls[r])
                   /\ pc[r] = "done"
                   /\ outcome[r] = "raised"
                   /\ CallsWith(r, {"create_pull"}) = <<>>
                   /\ \A k \in DOMAIN pulls : pulls[k].head # calls[r][i].branch
                   /\ calls[r][i].branch \in DOMAIN refs
                   /\ \A j \in 1..(i - 1) :
                        calls[r][j].op \in FileOps
                            => /\ calls[r][j].ok
                               /\ calls[r][j].path
                                    \in DOMAIN commits[refs[calls[r][i].branch]].tree
                               /\ commits[refs[calls[r][i].branch]].tree[calls[r][j].path]
                                    = calls[r][j].content

\* The second file write of a run failed after the first was applied.
C8_Witness ==
    \E r \in Runs :
        /\ Len(CallsWith(r, FileOps)) = 2
        /\ CallsWith(r, FileOps)[1].ok
        /\ ~CallsWith(r, FileOps)[2].ok
        /\ refs[pr_branch_name[r]] > 2

\* C9: no two runs call create-ref with the same ref name.
C9_BranchNameUniqueToRun ==
    \A r1, r2 \in Runs :
        r1 # r2 =>
            \A i \in DOMAIN calls[r1], j \in DOMAIN calls[r2] :
                (calls[r1][i].op = "create_git_ref" /\ calls[r2][j].op = "create_git_ref")
                    => calls[r1][i].ref # calls[r2][j].ref

\* C10: nothing keeps two runs on the same release branch apart: when both end
\* synced there are two pull requests, on two working branches that both
\* exist, with the same base and the same body.
C10_TwoRunsOpenDuplicatePulls ==
    (\A r \in Runs : outcome[r] = "synced")
        => /\ Len(pulls) = 2
           /\ pulls[1].head # pulls[2].head
           /\ {pulls[1].head, pulls[2].head} = {pr_branch_name[r] : r \in Runs}
           /\ {pulls[1].head, pulls[2].head} \subseteq DOMAIN refs
           /\ pulls[1].base = RELEASE_BRANCH_NAME
           /\ pulls[2].base = RELEASE_BRANCH_NAME
           /\ pulls[1].body = pulls[2].body
           /\ changed_files[1] = changed_files[2]

\* Both runs ended synced on the same Change Set of two paths, and they
\* overlapped: run 1 committed last to its branch before run 2 did to its
\* own, and run 2 opened its pull request first.
C10_Witness ==
    /\ \A r \in Runs : outcome[r] = "synced"
    /\ Len(changed_files[1].keys) = 2
    /\ changed_files[1].keys = changed_files[2].keys
    /\ refs[pr_branch_name[1]] < refs[pr_branch_name[2]]
    /\ pulls[1].head = pr_branch_name[2]
    /\ pulls[2].head = pr_branch_name[1]


\* The update_file calls of run r that GitHub rejected because the hash they
\* gave was not the hash of the file on the branch they wrote to.
StaleUpdates(r) ==
    {i \in 1..Len(calls[r]) :
        calls[r][i].op = "update_file" /\ calls[r][i].stale}

\* The create_git_ref calls of run r.
RefCalls(r) == CallsWith(r, {"create_git_ref"})

\* Run r has a file to update: a changed path the release branch has.
HasUpdates(r) ==
    \E i \in 1..Len(changed_files[r].vals) : changed_files[r].vals[i] # None

\* C11 (as the code behaves): with two runs and no other actor, no update_file
\* call of either run is rejected as stale. Each run writes to the branch it
\* created itself, and a run whose branch name is taken is refused at
\* create_git_ref, before its first write.
C11_NoUpdateRejectedAsStale ==
    \A r \in Runs : StaleUpdates(r) = {}

\* Both runs had files to update and asked for the same branch name; the first
\* has written, the second was refused the branch.
C11_Witness ==
    /\ HasUpdates(1) /\ HasUpdates(2)
    /\ Len(RefCalls(1)) = 1 /\ Len(RefCalls(2)) = 1
    /\ RefCalls(1)[1].ref = RefCalls(2)[1].ref
    /\ RefCalls(1)[1].ok /\ ~RefCalls(2)[1].ok
    /\ CallsWith(1, {"update_file"}) # <<>>
    /\ outcome[2] = "raised"

\* C11 (as claimed): when two runs with files to update race for the same
\* working branch, an update_file call of one of them is rejected as stale.
C11_RacingRunsGetStaleRejection ==
    ( /\ \A r \in Runs : pc[r] = "done" /\ HasUpdates(r)
      /\ Len(RefCalls(1)) = 1 /\ Len(RefCalls(2)) = 1
      /\ RefCalls(1)[1].ref = RefCalls(2)[1].ref )
    => \E r \in Runs : StaleUpdates(r) # {}


\* What two calls have in common when they are the same call up to the name
\* of the working branch, which line 108 takes from the clock.
SameCall(c, d) ==
    /\ c.op = d.op
    /\ c.op = "get_branch" => c.branch = d.branch
    /\ c.op = "get_contents" => c.path = d.path /\ c.ref = d.ref
    /\ c.op = "create_git_ref" => c.sha = d.sha
    /\ c.op = "update_file" =>
            /\ c.path = d.path /\ c.message = d.message
            /\ c.content = d.content /\ c.sha = d.sha /\ c.author = d.author
    /\ c.op = "create_file" =>
            /\ c.path = d.path /\ c.message = d.message
            /\ c.content = d.content /\ c.author = d.author
    /\ c.op = "create_pull" =>
            c.title = d.title /\ c.body = d.body /\ c.base = d.base

\* The first n calls of runs a and b got the same answers.
SameAnswers(a, b, n) ==
    /\ n <= Len(calls[a]) /\ n <= Len(calls[b])
    /\ \A j \in 1..n : calls[a][j].ok = calls[b][j].ok

\* C12: DRY_RUN has no effect. Of a run with DRY_RUN set and a run without,
\* on the same repository, the n-th calls are the same call whenever the calls
\* before got the same answers, and when one run has ended and the other got
\* the same answers to as many calls, it has ended with the same outcome.
C12_DryRunHasNoEffect ==
    \A a, b \in Runs :
        dry_run[a] # dry_run[b] =>
            /\ \A n \in 1..Len(calls[a]) :
                    (n <= Len(calls[b]) /\ SameAnswers(a, b, n - 1))
                        => SameCall(calls[a][n], calls[b][n])
            /\ (pc[a] = "done" /\ SameAnswers(a, b, Len(calls[a])))
                    => /\ pc[b] = "done"
                       /\ outcome[b] = outcome[a]
                       /\ Len(calls[b]) = Len(calls[a])

\* The run with DRY_RUN set and the run without have both updated a file and
\* opened their pull request.
C12_Witness ==
    /\ dry_run[1] /\ ~dry_run[2]
    /\ outcome[1] = "synced" /\ outcome[2] = "synced"
    /\ CallsWith(1, {"update_file"}) # <<>>
    /\ Len(calls[1]) = Len(calls[2])
    /\ Len(pulls) = 2


\* The locale of the one-locale manifest of SpecLocale, and the path line 81
\* has made of it.
TheLocale == ManifestLocales[1]
TheLocalePath == master_paths[1][2]
ValuesPath(qualifier) == "app/src/main/res/values-" \o qualifier \o "/strings.xml"

\* Lower-case letters, one hyphen, upper-case letters, and nothing else.
LanguageRegion(l) ==
    \E k \in 2..(Len(l) - 1) :
        /\ l[k] = "-"
        /\ \A i \in 1..(k - 1) : l[i] \in LowerChars
        /\ \A i \in (k + 1)..Len(l) : l[i] \in UpperChars

HyphenAt(l) == CHOOSE k \in 1..Len(l) : l[k] = "-"

\* C13: android_locale maps he to iw, yi to ji and id to in, and a locale of
\* lower-case letters, a hyphen and upper-case letters, not in the table, to
\* the letters, "-r" and the upper-case letters.
C13_TableAndLanguageRegion ==
    (pc[1] \notin {"get_branch", "get_version", "load_manifest"}
        /\ master_paths[1] # <<>>) =>
        /\ TheLocale = <<"h","e">> => TheLocalePath = ValuesPath("iw")
        /\ TheLocale = <<"y","i">> => TheLocalePath = ValuesPath("ji")
        /\ TheLocale = <<"i","d">> => TheLocalePath = ValuesPath("in")
        /\ LanguageRegion(TheLocale) =>
                TheLocalePath =
                    ValuesPath(Str(SubSeq(TheLocale, 1, HyphenAt(TheLocale) - 1))
                               \o "-r" \o
                               Str(SubSeq(TheLocale, HyphenAt(TheLocale) + 1,
                                          Len(TheLocale))))

\* The manifest names he-B and the run has made its path of it.
C13_Witness ==
    /\ TheLocale = <<"h","e","-","B">>
    /\ master_paths[1] = <<"l10n.toml", "app/src/main/res/values-he-rB/strings.xml">>

\* C14: android_locale returns every locale that is neither in the table nor
\* lower-case letters, a hyphen and upper-case letters as it is.
C14_EverythingElseUnchanged ==
    (pc[1] \notin {"get_branch", "get_version", "load_manifest"}
        /\ master_paths[1] # <<>>
        /\ TheLocale \notin {<<"h","e">>, <<"y","i">>, <<"i","d">>}
        /\ ~LanguageRegion(TheLocale))
    => TheLocalePath = ValuesPath(Str(TheLocale))


\* The branch a run has asked GitHub for on line 51.
AskedBranch(r) == calls[r][1].branch

\* C15: the release branch of a version below 85 is releases/v<N>.0.0, of a
\* version from 85 on releases_v<N>.0.0: releases/v84.0.0, releases_v85.0.0,
\* releases_v86.0.0.
C15_ReleaseBranchNaming ==
    \A r \in Runs :
        calls[r] # <<>> =>
            LET N == fenix_major_version[r]
            IN  /\ N < 85 => AskedBranch(r) = "releases/v" \o ToString(N) \o ".0.0"
                /\ N >= 85 => AskedBranch(r) = "releases_v" \o ToString(N) \o ".0.0"
                /\ N = 84 => AskedBranch(r) = "releases/v84.0.0"
                /\ N = 85 => AskedBranch(r) = "releases_v85.0.0"
                /\ N = 86 => AskedBranch(r) = "releases_v86.0.0"

\* A run for version 85 has found its branch under the new name.
C15_Witness ==
    /\ fenix_major_version[1] = 85
    /\ calls[1] # <<>>
    /\ calls[1][1] = [op |-> "get_branch", branch |-> "releases_v85.0.0", ok |-> TRUE]


\* The pull requests run r has opened, and the calls with which it wrote.
PullsOpened(r) == SelectSeq(CallsWith(r, {"create_pull"}), LAMBDA c : c.ok)
Writes(r) == CallsWith(r, WriteOps)

\* The run got past the beta guard of lines 53-57.
PastBetaGuard(r) == Len(calls[r]) > 2

\* The run has fetched a destination file (line 99): a read of the release
\* branch after the one of version.txt.
FetchedDestination(r) ==
    \E i \in 3..Len(calls[r]) :
        calls[r][i].op = "get_contents" /\ calls[r][i].ref = release_branch[r].name

\* The three ways a run ends.
EndedNoop(r) ==
    /\ outcome[r] = "noop"
    /\ Writes(r) = <<>>
    /\ ~PastBetaGuard(r)
EndedAborted(r) ==
    /\ outcome[r] \in {"exit(1)", "raised"}
    /\ \/ ~FetchedDestination(r) /\ Writes(r) = <<>>
       \/ /\ calls[r][Len(calls[r])].op \in WriteOps
          /\ ~calls[r][Len(calls[r])].ok
EndedWithPull(r) ==
    /\ outcome[r] = "synced"
    /\ Len(PullsOpened(r)) = 1
    /\ Len(CallsWith(r, {"create_pull"})) = 1

\* C16: every run ends, in exactly one of three ways: without a write, the
\* release branch not being in beta; aborted, by a fatal error before the
\* first destination fetch or by a failed write; or with exactly one pull
\* request opened.  No run returns normally past the beta guard without a
\* pull request.
C16_TerminatesInOneOfThreeOutcomes ==
    /\ \A r \in Runs : (pc[r] # "off") ~> (pc[r] = "done")
    /\ [](\A r \in Runs :
            /\ pc[r] = "done" =>
                    /\ EndedNoop(r) \/ EndedAborted(r) \/ EndedWithPull(r)
                    /\ ~(EndedNoop(r) /\ EndedAborted(r))
                    /\ ~(EndedNoop(r) /\ EndedWithPull(r))
                    /\ ~(EndedAborted(r) /\ EndedWithPull(r))
            /\ (outcome[r] \in {"noop", "synced"} /\ PastBetaGuard(r))
                    => Len(PullsOpened(r)) = 1)

\* A run has ended with its pull request opened after two writes.
C16_Witness ==
    /\ pc[1] = "done"
    /\ EndedWithPull(1)
    /\ Len(CallsWith(1, FileOps)) = 2
    /\ Len(pulls) = 1


\* The step of the run a call belongs to: 1 branch lookup, 2 version.txt,
\* 3 manifest, 4 source fetches, 5 destination fetches, 6 create-ref,
\* 7 file writes, 8 pull request.
StepOf(c) ==
    CASE c.op = "get_branch" -> 1
      [] c.op = "get_contents" /\ c.path = VERSION_PATH -> 2
      [] c.op = "get_contents" /\ c.path = MANIFEST_PATH -> 3
      [] c.op = "get_contents" /\ c.path \notin {VERSION_PATH, MANIFEST_PATH}
            /\ c.ref = MASTER_BRANCH_NAME -> 4
      [] c.op = "get_contents" /\ c.path \notin {VERSION_PATH, MANIFEST_PATH}
            /\ c.ref # MASTER_BRANCH_NAME -> 5
      [] c.op = "create_git_ref" -> 6
      [] c.op \in FileOps -> 7
      [] c.op = "create_pull" -> 8

CallsOfStep(r, n) == SelectSeq(calls[r], LAMBDA c : StepOf(c) = n)

\* C17: the calls of a run come in step order: branch lookup, version.txt,
\* manifest; every source fetch, each successful, before the first destination
\* fetch; every destination fetch before create-ref; create-ref before every
\* file write; the pull request only after the last write of the Change Set
\* has succeeded.
C17_CallsInStepOrder ==
    \A r \in Runs :
        /\ \A i, j \in 1..Len(calls[r]) :
                i < j => /\ StepOf(calls[r][i]) <= StepOf(calls[r][j])
                         /\ StepOf(calls[r][i]) \in {1, 2, 3, 6, 8}
                                => StepOf(calls[r][i]) < StepOf(calls[r][j])
        /\ \A i \in 1..Len(calls[r]) :
                i <= 3 => StepOf(calls[r][i]) = i
        /\ CallsOfStep(r, 5) # <<>> =>
                /\ Len(CallsOfStep(r, 4)) = Len(master_paths[r])
                /\ \A i \in 1..Len(master_paths[r]) :
                        /\ CallsOfStep(r, 4)[i].path = master_paths[r][i]
                        /\ CallsOfStep(r, 4)[i].ok
        /\ CallsOfStep(r, 6) # <<>> =>
                /\ Len(CallsOfStep(r, 5)) = Len(master_paths[r])
                /\ \A i \in 1..Len(master_paths[r]) :
                        CallsOfStep(r, 5)[i].path = master_paths[r][i]
        /\ CallsOfStep(r, 7) # <<>> => CallsOfStep(r, 6)[1].ok
        /\ CallsOfStep(r, 8) # <<>> =>
                /\ CallsOfStep(r, 6)[1].ok
                /\ Len(CallsOfStep(r, 7)) = Len(changed_files[r].keys)
                /\ \A i \in 1..Len(CallsOfStep(r, 7)) : CallsOfStep(r, 7)[i].ok

\* A run has made the calls of every step: three source and three destination
\* fetches, the branch, three writes and the pull request.
C17_Witness ==
    /\ Len(calls[1]) = 3 + 3 + 3 + 1 + 3 + 1
    /\ Len(CallsOfStep(1, 7)) = 3
    /\ Len(CallsOfStep(1, 8)) = 1


\* No one has pushed to the release branch since run r looked it up on line 51.
ReleaseUntouched(r) == refs[release_branch[r].name] = release_branch[r].commit

\* The hash path had on the commit run r looked up on line 51, the commit its
\* working branch starts at.
ShaAtLookup(r, path) ==
    IF path \in DOMAIN commits[release_branch[r].commit].tree
    THEN Sha(commits[release_branch[r].commit].tree[path])
    ELSE None

\* C18: the working branch is created at the commit the branch lookup read.
\* While no other actor has pushed to the release branch since, the hash every
\* update_file call gave was the hash of the file on the working branch when
\* it was made, and no update was rejected as stale.
C18_NoStaleUpdateWhileReleaseUntouched ==
    \A r \in Runs : release_branch[r] # None =>
        /\ \A i \in 1..Len(RefCalls(r)) : RefCalls(r)[i].sha = release_branch[r].commit
        /\ pr_branch_name[r] \in DOMAIN refs /\ CallsWith(r, FileOps) = <<>>
                => refs[pr_branch_name[r]] = release_branch[r].commit
        /\ (CallsWith(r, {"update_file"}) # <<>> /\ ReleaseUntouched(r))
                => /\ StaleUpdates(r) = {}
                   /\ \A i \in 1..Len(CallsWith(r, {"update_file"})) :
                        LET c == CallsWith(r, {"update_file"})[i]
                        IN  c.sha = ShaAtLookup(r, c.path)

\* The release branch advanced after the lookup and before the destination
\* fetches: the hash the update gave is not the one of the working branch's
\* file, and the update was rejected.
C18_Witness ==
    /\ release_branch[1] # None
    /\ ~ReleaseUntouched(1)
    /\ outcome[1] = "raised"
    /\ StaleUpdates(1) # {}
    /\ LET c == calls[1][Len(calls[1])]
       IN  /\ c.op = "update_file" /\ c.stale /\ ~c.ok
           /\ ShaAtLookup(1, c.path) # None
           /\ c.sha # ShaAtLookup(1, c.path)


\* The files of the working branch of run r.
WorkingTree(r) == commits[refs[pr_branch_name[r]]].tree

\* C19: after a run that ended with its pull request, no one else writing,
\* every candidate path has on the working branch the content, and the hash,
\* of the source snapshot fetched from master.
C19_WorkingBranchEqualsSource ==
    \A r \in Runs :
        outcome[r] = "synced" =>
            \A i \in 1..Len(master_paths[r]) :
                LET path == master_paths[r][i]
                IN  /\ path \in DOMAIN WorkingTree(r)
                    /\ WorkingTree(r)[path] = master_files[r][path].decoded_content
                    /\ WorkingTree(r)[path] = MasterTree[path]
                    /\ Sha(WorkingTree(r)[path]) = master_files[r][path].sha

\* A run has ended with its pull request after it overwrote one file, created
\* another and left the third, which already matched.
C19_Witness ==
    /\ outcome[1] = "synced"
    /\ Len(master_paths[1]) = 3
    /\ Len(CallsWith(1, {"update_file"})) = 1
    /\ Len(CallsWith(1, {"create_file"})) = 1


\* The files of a branch, before and after a step.
TreeOf(b) == commits[refs[b]].tree
TreeOfNext(b) == commits'[refs'[b]].tree

\* A step keeps every ref there is, moves neither master nor the release
\* branch, leaves every commit as it is and takes no file off a branch.
KeepsBranches ==
    /\ DOMAIN refs \subseteq DOMAIN refs'
    /\ \A b \in DOMAIN refs \cap {MASTER_BRANCH_NAME, RELEASE_BRANCH_NAME} :
            /\ refs'[b] = refs[b]
            /\ TreeOfNext(b) = TreeOf(b)
    /\ Len(commits') >= Len(commits)
    /\ SubSeq(commits', 1, Len(commits)) = commits
    /\ \A b \in DOMAIN refs : DOMAIN TreeOf(b) \subseteq DOMAIN TreeOfNext(b)

\* Every file write of run r named the branch the run had created itself,
\* which is neither master nor the release branch.
WritesOwnBranch(r) ==
    \A i \in 1..Len(CallsWith(r, FileOps)) :
        LET c == CallsWith(r, FileOps)[i]
        IN  /\ c.branch = pr_branch_name[r]
            /\ c.branch \notin {MASTER_BRANCH_NAME, RELEASE_BRANCH_NAME}
            /\ Len(RefCalls(r)) = 1
            /\ RefCalls(r)[1].ok
            /\ RefCalls(r)[1].ref = "refs/heads/" \o c.branch

\* C20: no step of a run moves master or the release branch or changes a file
\* on them, whatever the outcome; every create_file and update_file call
\* names the working branch the run created; no ref and no file is deleted.
C20_OnlyTheOwnWorkingBranchIsWritten ==
    /\ [][KeepsBranches]_vars
    /\ [](\A r \in Runs : WritesOwnBranch(r))

\* A run has written to its working branch; master and the release branch
\* are where they were at the start.
C20_Witness ==
    /\ CallsWith(1, FileOps) # <<>>
    /\ CallsWith(1, FileOps)[1].ok
    /\ refs[MASTER_BRANCH_NAME] = 1
    /\ refs[RELEASE_BRANCH_NAME] = 2
    /\ refs[pr_branch_name[1]] > 2

====
